---------------------------- MODULE Spec2Model ----------------------------
(***************************************************************************)
(* Model of the Adafruit_MMC5603 driver (src/Adafruit_MMC56x3.cpp).        *)
(*                                                                         *)
(* The driver is single-threaded and blocking.  Every public method is one *)
(* action, except where the code busy-polls the status register: there the *)
(* method is cut at the poll, the device sets the polled bit in an action  *)
(* of its own, and the method continues in the next action.                *)
(*                                                                         *)
(* Bookkeeping variables (op, arg, ret, log, pre) record the call being    *)
(* made: its name, its arguments, its return value, the bus transactions   *)
(* it performed so far, and the driver state when it was entered.          *)
(***************************************************************************)
EXTENDS Integers, Sequences, FiniteSets

VARIABLES
    i2c_dev,       \* address the Adafruit_I2CDevice is bound to, NULL before
    regs,          \* TRUE once _ctrl0_reg.._status_reg have been created
    _odr_cache,    \* uint16_t shadow of the requested data rate
    _ctrl2_cache,  \* uint8_t shadow of control register 2
    bx, by, bz,    \* stored bias
    x, y, z,       \* last bias-corrected sample
    ctrl2_hw,      \* last byte the driver wrote to control register 2
    meas,          \* device: per status bit, "idle", "busy" or "done"
    pc,            \* "idle", or the poll loop the running call is in
    op,            \* name of the running / last call
    arg,           \* its arguments
    ret,           \* its return value (<<>> while running or void)
    log,           \* bus transactions of the running / last call
    pre,           \* driver state at the entry of the running / last call
    loc            \* locals of calibrate() that live across its polls

vars == <<i2c_dev, regs, _odr_cache, _ctrl2_cache, bx, by, bz, x, y, z,
          ctrl2_hw, meas, pc, op, arg, ret, log, pre, loc>>

---------------------------------------------------------------------------
(* Bounds and input sets *)

\* samples the device can deliver are numbered 0..MaxSample
MaxSample == 1

\* the 9 output bytes of sample i: bytes 1..6 are the high and middle bytes
\* of x, y, z, bytes 7..9 carry the low nibbles in their top four bits
Buf(i) == [j \in 1..9 |-> ((i + 1) * (37 * j + 11) + 80 * i * j + 5 * i) % 256]

SampleIds == 0..MaxSample

\* rates passed to setDataRate (uint16_t)
Rates == {0, 255, 256, 300, 1000}

\* bytes the temperature output register can hold
TempBytes == {0, 94, 255}

\* bytes a read of control register 1 can return
Ctrl1Reads == {0, 6}

\* I2C addresses passed to begin()
Addrs == {48, 49}

---------------------------------------------------------------------------
(* Program constants *)

\* i2c_dev before the first begin()
NULL == 0
\* the product ID begin() expects; only its equality with the byte read matters
MMC56X3_CHIP_ID == 16
\* control register 0: set 0x08, reset 0x10, TM_M 0x01, TM_T 0x02, cmm_freq_en 0x80
SET_BIT == 8
RESET_BIT == 16
TM_M == 1
TM_T == 2
CMM_FREQ_EN == 128
\* control register 2: cmm_en 0x10, hpower 0x80
CMM_EN == 16
HPOWER == 128
\* control register 1: software reset 0x80, the 0x20 written by calibrate()
SW_RST == 128
MAX_READ_TIME == 32
\* setDataRate: the rate that stands for every rate above 255, and the byte
\* written to the rate register for it
MAX_RATE == 1000
ODR_MAX == 255
\* status register: bit 6 magnetic measurement done, bit 7 temperature done
MAG_DONE_BIT == 6
TEMP_DONE_BIT == 7

\* product-ID bytes the device can answer with
IdReads == {MMC56X3_CHIP_ID, 0}

---------------------------------------------------------------------------
(* Bit arithmetic on naturals, as C computes | and & *)

RECURSIVE BitOr(_, _)
BitOr(a, b) ==
    IF a = 0 THEN b
    ELSE IF b = 0 THEN a
    ELSE (IF a % 2 = 1 \/ b % 2 = 1 THEN 1 ELSE 0) + 2 * BitOr(a \div 2, b \div 2)

RECURSIVE BitAnd(_, _)
BitAnd(a, b) ==
    IF a = 0 \/ b = 0 THEN 0
    ELSE (IF a % 2 = 1 /\ b % 2 = 1 THEN 1 ELSE 0) + 2 * BitAnd(a \div 2, b \div 2)

\* ~m truncated to a uint8_t
BitNot8(m) == 255 - m

RECURSIVE Pow2(_)
Pow2(n) == IF n = 0 THEN 1 ELSE 2 * Pow2(n - 1)

Shl(a, n) == a * Pow2(n)
Shr(a, n) == a \div Pow2(n)

\* C integer division, truncating toward zero
CDiv(a, b) == IF a >= 0 THEN a \div b ELSE -((-a) \div b)

---------------------------------------------------------------------------
(* readXYZ: decode of the 9 bytes read from MMC56X3_OUT_X_L.               *)
(* buffer[k] of the source is buf[k+1] here.                               *)

\* DecodeY taking its low nibble from the byte that belongs to x
DecodeY_WrongByte(buf) ==
    BitOr(BitOr(Shl(buf[3], 12), Shl(buf[4], 4)), Shr(buf[7], 4))

DecodeX(buf) == BitOr(BitOr(Shl(buf[1], 12), Shl(buf[2], 4)), Shr(buf[7], 4))
DecodeY(buf) == BitOr(BitOr(Shl(buf[3], 12), Shl(buf[4], 4)), Shr(buf[8], 4))
DecodeZ(buf) == BitOr(BitOr(Shl(buf[5], 12), Shl(buf[6], 4)), Shr(buf[9], 4))

Decode(buf) == <<DecodeX(buf), DecodeY(buf), DecodeZ(buf)>>

---------------------------------------------------------------------------
(* The bus.  A driver value d is the record of what the register-level     *)
(* code reads and writes: the bound address, the two caches, the last byte *)
(* written to control register 2, the device's measurement state and the   *)
(* log of this call's transactions.                                        *)

Cur == [i2c_dev |-> i2c_dev, odr |-> _odr_cache, ctrl2 |-> _ctrl2_cache,
        ctrl2_hw |-> ctrl2_hw, meas |-> meas, log |-> log]

\* the state a call starts from: the log of the previous call is dropped
Enter == [Cur EXCEPT !.log = <<>>]

Commit(d) ==
    /\ i2c_dev' = d.i2c_dev
    /\ _odr_cache' = d.odr
    /\ _ctrl2_cache' = d.ctrl2
    /\ ctrl2_hw' = d.ctrl2_hw
    /\ meas' = d.meas
    /\ log' = d.log

Entry(k, reg, data, d) == [k |-> k, reg |-> reg, data |-> data, addr |-> d.i2c_dev]

Logged(d, k, reg, data) == [d EXCEPT !.log = Append(@, Entry(k, reg, data, d))]

\* what the device does with a byte written to one of its registers
DeviceWrite(m, reg, v) ==
    IF reg = "CTRL0" THEN
        [b \in DOMAIN m |->
            IF b = MAG_DONE_BIT /\ BitAnd(v, TM_M) # 0 THEN "busy"
            ELSE IF b = TEMP_DONE_BIT /\ BitAnd(v, TM_T) # 0 THEN "busy"
            ELSE m[b]]
    ELSE IF reg = "CTRL1" /\ BitAnd(v, SW_RST) # 0 THEN
        [b \in DOMAIN m |-> "idle"]
    ELSE m

\* Adafruit_BusIO_Register::write of one byte
WriteReg(d, reg, v) ==
    LET w == Logged(d, "w", reg, <<v>>)
    IN  [w EXCEPT !.meas = DeviceWrite(d.meas, reg, v),
                  !.ctrl2_hw = IF reg = "CTRL2" THEN v ELSE @]

\* the status register as the device presents it
StatusByte(m) ==
    (IF m[MAG_DONE_BIT] = "done" THEN Pow2(MAG_DONE_BIT) ELSE 0)
    + (IF m[TEMP_DONE_BIT] = "done" THEN Pow2(TEMP_DONE_BIT) ELSE 0)

\* Adafruit_BusIO_RegisterBits(_status_reg, 1, bit).read()
StatusBit(m, bit) == BitAnd(Shr(StatusByte(m), bit), 1)

---------------------------------------------------------------------------
(* Driver methods that never block, as functions on driver values *)

isContinuousMode(c2) == BitAnd(c2, CMM_EN) # 0

\* setContinuousMode writing the enable bit to the device but not to the cache
setContinuousMode_NoCache(d, mode) ==
    IF mode
    THEN WriteReg(WriteReg(d, "CTRL0", CMM_FREQ_EN), "CTRL2", BitOr(d.ctrl2, CMM_EN))
    ELSE LET d2 == [d EXCEPT !.ctrl2 = BitAnd(@, BitNot8(CMM_EN))]
         IN  WriteReg(d2, "CTRL2", d2.ctrl2)

\* setContinuousMode rebuilding the cached byte from the enable bit alone
setContinuousMode_ClobberHp(d, mode) ==
    LET d1 == IF mode THEN WriteReg(d, "CTRL0", CMM_FREQ_EN) ELSE d
        d2 == [d1 EXCEPT !.ctrl2 = IF mode THEN CMM_EN ELSE 0]
    IN  WriteReg(d2, "CTRL2", d2.ctrl2)

setContinuousMode(d, mode) ==
    LET d1 == IF mode THEN WriteReg(d, "CTRL0", CMM_FREQ_EN) ELSE d
        c  == IF mode THEN BitOr(d.ctrl2, CMM_EN)
                      ELSE BitAnd(d.ctrl2, BitNot8(CMM_EN))
        d2 == [d1 EXCEPT !.ctrl2 = c]
    IN  WriteReg(d2, "CTRL2", d2.ctrl2)

magnetSetReset(d) == WriteReg(WriteReg(d, "CTRL0", SET_BIT), "CTRL0", RESET_BIT)

\* reset without the zeroing of the two caches
reset_KeepCache(d) ==
    setContinuousMode(magnetSetReset(WriteReg(d, "CTRL1", SW_RST)), FALSE)

reset(d) ==
    LET d1 == WriteReg(d, "CTRL1", SW_RST)
        d2 == [d1 EXCEPT !.odr = 0, !.ctrl2 = 0]
    IN  setContinuousMode(magnetSetReset(d2), FALSE)

\* setDataRate without the clamp of rates above 255
setDataRate_NoClamp(d, r) ==
    LET d1 == [d EXCEPT !.odr = r]
    IN  IF r = MAX_RATE
        THEN LET d2 == WriteReg(d1, "ODR", ODR_MAX)
                 d3 == [d2 EXCEPT !.ctrl2 = BitOr(@, HPOWER)]
             IN  WriteReg(d3, "CTRL2", d3.ctrl2)
        ELSE LET d2 == WriteReg(d1, "ODR", r % 256)
                 d3 == [d2 EXCEPT !.ctrl2 = BitAnd(@, BitNot8(HPOWER))]
             IN  WriteReg(d3, "CTRL2", d3.ctrl2)

\* setDataRate updating the cached byte without writing it to the device
setDataRate_NoFlush(d, r) ==
    LET rate == IF r > 255 THEN MAX_RATE ELSE r
        d1   == [d EXCEPT !.odr = rate]
    IN  IF rate = MAX_RATE
        THEN [WriteReg(d1, "ODR", ODR_MAX) EXCEPT !.ctrl2 = BitOr(@, HPOWER)]
        ELSE [WriteReg(d1, "ODR", rate)
                 EXCEPT !.ctrl2 = BitAnd(@, BitNot8(HPOWER))]

setDataRate(d, r) ==
    LET rate == IF r > 255 THEN MAX_RATE ELSE r
        d1   == [d EXCEPT !.odr = rate]
    IN  IF rate = MAX_RATE
        THEN LET d2 == WriteReg(d1, "ODR", ODR_MAX)
                 d3 == [d2 EXCEPT !.ctrl2 = BitOr(@, HPOWER)]
             IN  WriteReg(d3, "CTRL2", d3.ctrl2)
        ELSE LET d2 == WriteReg(d1, "ODR", rate)
                 d3 == [d2 EXCEPT !.ctrl2 = BitAnd(@, BitNot8(HPOWER))]
             IN  WriteReg(d3, "CTRL2", d3.ctrl2)

getDataRate(c2, odr) == c2

\* readXYZ: one write_then_read of 9 bytes, then the decode
readXYZ(d, buf) == Logged(d, "r", "OUT_X_L", buf)


\* float temp = byte; temp *= 0.8; temp -= 75  -- in tenths of a degree
TempTenths(b) == 8 * b - 750

\* (float)v * 0.00625  -- in units of 0.00001 uT
Scale(v) == v * 625

\* Mean with the mean rounded half up instead of truncated
Mean_RoundUp(h, l) == CDiv(h + l + 1, 2)

\* bx = (x_high + x_low) / 2 on int32_t
Mean(h, l) == CDiv(h + l, 2)

\* RestoreState without the assignment _ctrl2_cache = old_ctrl2
RestoreState_NoCache(d, old_ctrl1, old_ctrl2) ==
    WriteReg(WriteReg(d, "CTRL1", old_ctrl1), "CTRL2", old_ctrl2)

\* calibrate(): "Restore old state."
RestoreState(d, old_ctrl1, old_ctrl2) ==
    LET d1 == WriteReg(d, "CTRL1", old_ctrl1)
        d2 == WriteReg(d1, "CTRL2", old_ctrl2)
    IN  [d2 EXCEPT !.ctrl2 = old_ctrl2]

\* calibrate(): restore the bridge, then continuous mode if it was on
RestoreBridge(d) ==
    LET d1 == magnetSetReset(d)
    IN  setContinuousMode(d1, isContinuousMode(d1.ctrl2))

\* Correct without the subtraction
Correct_NoBias(raw, bias) == raw

\* getEvent(): x -= bx
Correct(raw, bias) == raw - bias

---------------------------------------------------------------------------
(* State *)

Snapshot == [ctrl2 |-> _ctrl2_cache, odr |-> _odr_cache]

NoLoc == [old_ctrl1 |-> 0, old_ctrl2 |-> 0, high |-> <<0, 0, 0>>]

PollBit(p) == IF p = "temp_poll" THEN TEMP_DONE_BIT ELSE MAG_DONE_BIT

PollPcs == {"temp_poll", "event_poll", "cal_poll_set", "cal_poll_reset"}

\* the successful read of the polled status bit that ends a poll loop
PollRead(d) == Logged(d, "r", "STATUS", <<StatusByte(d.meas)>>)

\* The constructor zeroes x, y, z; the pointers, the caches and the bias hold
\* the defaults of their declarations until begin() and calibrate() set them.
Init ==
    /\ i2c_dev = NULL
    /\ regs = FALSE
    /\ _odr_cache = 0
    /\ _ctrl2_cache = 0
    /\ bx = 0 /\ by = 0 /\ bz = 0
    /\ x = 0 /\ y = 0 /\ z = 0
    /\ ctrl2_hw = 0
    /\ meas = [b \in {MAG_DONE_BIT, TEMP_DONE_BIT} |-> "idle"]
    /\ pc = "idle"
    /\ op = "new"
    /\ arg = <<>>
    /\ ret = <<>>
    /\ log = <<>>
    /\ pre = [ctrl2 |-> 0, odr |-> 0]
    /\ loc = NoLoc

\* a call of method name with arguments a starts
Call(name, a) ==
    /\ pc = "idle"
    /\ op' = name
    /\ arg' = a
    /\ pre' = Snapshot

Ready == pc = "idle" /\ regs

---------------------------------------------------------------------------
(* begin(i2c_address, wire).  open_ok is the answer of i2c_dev->begin(),   *)
(* id the byte read from the product-ID register.                          *)

\* begin running reset() before the product ID is compared
begin_ResetBeforeCheck(d, addr, open_ok, id) ==
    LET dev == IF d.i2c_dev = NULL THEN addr ELSE d.i2c_dev
        d0  == [d EXCEPT !.i2c_dev = dev]
        d1  == Logged(d0, "open", "", <<IF open_ok THEN 1 ELSE 0>>)
        d2  == Logged(d1, "r", "PRODUCT_ID", <<id>>)
    IN  IF ~open_ok THEN [d |-> d1, ok |-> FALSE]
        ELSE [d |-> reset(d2), ok |-> (id = MMC56X3_CHIP_ID)]

begin(d, addr, open_ok, id) ==
    LET dev == IF d.i2c_dev = NULL THEN addr ELSE d.i2c_dev
        d0  == [d EXCEPT !.i2c_dev = dev]
        d1  == Logged(d0, "open", "", <<IF open_ok THEN 1 ELSE 0>>)
        d2  == Logged(d1, "r", "PRODUCT_ID", <<id>>)
    IN  IF ~open_ok THEN [d |-> d1, ok |-> FALSE]
        ELSE IF id # MMC56X3_CHIP_ID THEN [d |-> d2, ok |-> FALSE]
        ELSE [d |-> reset(d2), ok |-> TRUE]

Begin(addr, open_ok, id) ==
    /\ Call("begin", <<addr>>)
    /\ LET r == begin(Enter, addr, open_ok, id)
       IN  /\ Commit(r.d)
           /\ ret' = <<r.ok>>
           /\ regs' = (regs \/ r.ok)
    /\ pc' = "idle"
    /\ UNCHANGED <<bx, by, bz, x, y, z, loc>>

Reset ==
    /\ Ready
    /\ Call("reset", <<>>)
    /\ Commit(reset(Enter))
    /\ ret' = <<>>
    /\ pc' = "idle"
    /\ UNCHANGED <<regs, bx, by, bz, x, y, z, loc>>

SetContinuousMode(mode) ==
    /\ Ready
    /\ Call("setContinuousMode", <<mode>>)
    /\ Commit(setContinuousMode(Enter, mode))
    /\ ret' = <<>>
    /\ pc' = "idle"
    /\ UNCHANGED <<regs, bx, by, bz, x, y, z, loc>>

IsContinuousMode ==
    /\ Ready
    /\ Call("isContinuousMode", <<>>)
    /\ Commit(Enter)
    /\ ret' = <<isContinuousMode(_ctrl2_cache)>>
    /\ pc' = "idle"
    /\ UNCHANGED <<regs, bx, by, bz, x, y, z, loc>>

SetDataRate(r) ==
    /\ Ready
    /\ Call("setDataRate", <<r>>)
    /\ Commit(setDataRate(Enter, r))
    /\ ret' = <<>>
    /\ pc' = "idle"
    /\ UNCHANGED <<regs, bx, by, bz, x, y, z, loc>>

GetDataRate ==
    /\ Ready
    /\ Call("getDataRate", <<>>)
    /\ Commit(Enter)
    /\ ret' = <<getDataRate(_ctrl2_cache, _odr_cache)>>
    /\ pc' = "idle"
    /\ UNCHANGED <<regs, bx, by, bz, x, y, z, loc>>

---------------------------------------------------------------------------
(* readTemperature() *)

NaN == [nan |-> TRUE, tenths |-> 0]

\* ReadTemperatureCall without the continuous-mode check
ReadTemperatureCall_NoGuard ==
    /\ Ready
    /\ Call("readTemperature", <<>>)
    /\ Commit(WriteReg(Enter, "CTRL0", TM_T)) /\ ret' = <<>> /\ pc' = "temp_poll"
    /\ UNCHANGED <<regs, bx, by, bz, x, y, z, loc>>

ReadTemperatureCall ==
    /\ Ready
    /\ Call("readTemperature", <<>>)
    /\ IF isContinuousMode(_ctrl2_cache)
       THEN Commit(Enter) /\ ret' = NaN /\ pc' = "idle"
       ELSE Commit(WriteReg(Enter, "CTRL0", TM_T)) /\ ret' = <<>> /\ pc' = "temp_poll"
    /\ UNCHANGED <<regs, bx, by, bz, x, y, z, loc>>

\* ReadTemperatureDone leaving the poll loop whatever the status bit reads
ReadTemperatureDone_NoWait(t) ==
    /\ pc = "temp_poll"
    /\ Commit(Logged(PollRead(Cur), "r", "OUT_TEMP", <<t>>))
    /\ ret' = [nan |-> FALSE, tenths |-> TempTenths(t)]
    /\ pc' = "idle"
    /\ UNCHANGED <<regs, bx, by, bz, x, y, z, loc, op, arg, pre>>

\* temp_read_done.read() returned 1: read the temperature byte t and return
ReadTemperatureDone(t) ==
    /\ pc = "temp_poll"
    /\ StatusBit(meas, TEMP_DONE_BIT) # 0
    /\ Commit(Logged(PollRead(Cur), "r", "OUT_TEMP", <<t>>))
    /\ ret' = [nan |-> FALSE, tenths |-> TempTenths(t)]
    /\ pc' = "idle"
    /\ UNCHANGED <<regs, bx, by, bz, x, y, z, loc, op, arg, pre>>

---------------------------------------------------------------------------
(* getEvent(event) *)

\* from readXYZ to return true; i is the sample the device holds
GetEventRead(d, i) ==
    LET raw == Decode(Buf(i))
    IN  /\ Commit(readXYZ(d, Buf(i)))
        /\ x' = Correct(raw[1], bx)
        /\ y' = Correct(raw[2], by)
        /\ z' = Correct(raw[3], bz)
        /\ ret' = [ok |-> TRUE,
                   magnetic |-> <<Scale(x'), Scale(y'), Scale(z')>>]
        /\ pc' = "idle"
        /\ UNCHANGED <<regs, bx, by, bz, loc>>

GetEventContinuous(i) ==
    /\ Ready
    /\ isContinuousMode(_ctrl2_cache)
    /\ Call("getEvent", <<>>)
    /\ GetEventRead(Enter, i)

GetEventTrigger ==
    /\ Ready
    /\ ~isContinuousMode(_ctrl2_cache)
    /\ Call("getEvent", <<>>)
    /\ Commit(WriteReg(Enter, "CTRL0", TM_M))
    /\ ret' = <<>>
    /\ pc' = "event_poll"
    /\ UNCHANGED <<regs, bx, by, bz, x, y, z, loc>>

\* GetEventDone leaving the poll loop whatever the status bit reads
GetEventDone_NoWait(i) ==
    /\ pc = "event_poll"
    /\ GetEventRead(PollRead(Cur), i)
    /\ UNCHANGED <<op, arg, pre>>

\* mag_read_done.read() returned 1
GetEventDone(i) ==
    /\ pc = "event_poll"
    /\ StatusBit(meas, MAG_DONE_BIT) # 0
    /\ GetEventRead(PollRead(Cur), i)
    /\ UNCHANGED <<op, arg, pre>>

---------------------------------------------------------------------------
(* calibrate() *)

\* from the entry to the first poll; c1 is what _ctrl1_reg->read() returns
CalibrateCall(c1) ==
    /\ Ready
    /\ Call("calibrate", <<>>)
    /\ LET d1 == Logged(Enter, "r", "CTRL1", <<c1>>)
           d2 == setContinuousMode(d1, FALSE)
           d3 == WriteReg(d2, "CTRL0", SET_BIT)
           d4 == WriteReg(d3, "CTRL1", MAX_READ_TIME)
           d5 == WriteReg(d4, "CTRL0", TM_M)
       IN  Commit(d5)
    /\ loc' = [old_ctrl1 |-> c1, old_ctrl2 |-> _ctrl2_cache, high |-> <<0, 0, 0>>]
    /\ ret' = <<>>
    /\ pc' = "cal_poll_set"
    /\ UNCHANGED <<regs, bx, by, bz, x, y, z>>

\* CalibrateHigh without the second TM_M trigger
CalibrateHigh_NoTrigger(i) ==
    /\ pc = "cal_poll_set"
    /\ StatusBit(meas, MAG_DONE_BIT) # 0
    /\ Commit(WriteReg(readXYZ(PollRead(Cur), Buf(i)), "CTRL0", RESET_BIT))
    /\ loc' = [loc EXCEPT !.high = Decode(Buf(i))]
    /\ pc' = "cal_poll_reset"
    /\ UNCHANGED <<regs, bx, by, bz, x, y, z, op, arg, ret, pre>>

\* first poll done: read the high sample i, pulse reset, trigger again
CalibrateHigh(i) ==
    /\ pc = "cal_poll_set"
    /\ StatusBit(meas, MAG_DONE_BIT) # 0
    /\ LET d1 == readXYZ(PollRead(Cur), Buf(i))
           d2 == WriteReg(d1, "CTRL0", RESET_BIT)
           d3 == WriteReg(d2, "CTRL0", TM_M)
       IN  Commit(d3)
    /\ loc' = [loc EXCEPT !.high = Decode(Buf(i))]
    /\ pc' = "cal_poll_reset"
    /\ UNCHANGED <<regs, bx, by, bz, x, y, z, op, arg, ret, pre>>

\* second poll done: read the low sample i, store the bias, restore, return
CalibrateLow(i) ==
    /\ pc = "cal_poll_reset"
    /\ StatusBit(meas, MAG_DONE_BIT) # 0
    /\ LET low == Decode(Buf(i))
           d1  == readXYZ(PollRead(Cur), Buf(i))
           d2  == RestoreState(d1, loc.old_ctrl1, loc.old_ctrl2)
       IN  /\ bx' = Mean(loc.high[1], low[1])
           /\ by' = Mean(loc.high[2], low[2])
           /\ bz' = Mean(loc.high[3], low[3])
           /\ Commit(RestoreBridge(d2))
    /\ loc' = NoLoc
    /\ ret' = <<>>
    /\ pc' = "idle"
    /\ UNCHANGED <<regs, x, y, z, op, arg, pre>>

---------------------------------------------------------------------------
(* Busy polls and the device *)

\* the polled bit read 0: delay and read again
PollBusy ==
    /\ pc \in PollPcs
    /\ StatusBit(meas, PollBit(pc)) = 0
    /\ UNCHANGED vars

\* the device finishes the measurement that was triggered
DeviceDone(b) ==
    /\ meas[b] = "busy"
    /\ meas' = [meas EXCEPT ![b] = "done"]
    /\ UNCHANGED <<i2c_dev, regs, _odr_cache, _ctrl2_cache, bx, by, bz, x, y, z,
                   ctrl2_hw, pc, op, arg, ret, log, pre, loc>>

---------------------------------------------------------------------------

Next ==
    \/ \E a \in Addrs, ok \in BOOLEAN, id \in IdReads : Begin(a, ok, id)
    \/ Reset
    \/ \E m \in BOOLEAN : SetContinuousMode(m)
    \/ IsContinuousMode
    \/ \E r \in Rates : SetDataRate(r)
    \/ GetDataRate
    \/ ReadTemperatureCall
    \/ \E t \in TempBytes : ReadTemperatureDone(t)
    \/ \E i \in SampleIds : GetEventContinuous(i)
    \/ GetEventTrigger
    \/ \E i \in SampleIds : GetEventDone(i)
    \/ \E c \in Ctrl1Reads : CalibrateCall(c)
    \/ \E i \in SampleIds : CalibrateHigh(i)
    \/ \E i \in SampleIds : CalibrateLow(i)
    \/ PollBusy
    \/ \E b \in {MAG_DONE_BIT, TEMP_DONE_BIT} : DeviceDone(b)

Spec == Init /\ [][Next]_vars

\* The step that leaves a poll loop: the read of the polled bit returned 1
\* and the method goes on, to the next poll of calibrate() or to its
\* return.  Of the steps of Next these are the steps ReadTemperatureDone,
\* GetEventDone, CalibrateHigh and CalibrateLow, the only ones that change
\* pc from a poll position.
LoopExit ==
    /\ pc \in PollPcs
    /\ StatusBit(meas, PollBit(pc)) # 0
    /\ pc' = IF pc = "cal_poll_set" THEN "cal_poll_reset" ELSE "idle"

\* The device finishes every measurement it was triggered for, and the
\* processor keeps running the method it is in.
FairSpec ==
    /\ Spec
    /\ WF_vars(DeviceDone(MAG_DONE_BIT))
    /\ WF_vars(DeviceDone(TEMP_DONE_BIT))
    /\ WF_pc(LoopExit)

---------------------------------------------------------------------------
(* Properties.  They read the registers' bits and the sample bytes with    *)
(* arithmetic of their own, not with the operators of the model above.     *)

CmmBit(v) == (v \div 16) % 2 = 1
HpBit(v) == (v \div 128) % 2 = 1

Returned(name) == pc = "idle" /\ op = name

WritesTo(reg) == LET T(e) == e.k = "w" /\ e.reg = reg IN SelectSeq(log, T)
ReadsOf(reg) == LET T(e) == e.k = "r" /\ e.reg = reg IN SelectSeq(log, T)
AllWrites == LET T(e) == e.k = "w" IN SelectSeq(log, T)

Bytes(sq) == [i \in DOMAIN sq |-> sq[i].data[1]]
LastN(sq, n) == SubSeq(sq, Len(sq) - n + 1, Len(sq))

\* axis a (1 = x, 2 = y, 3 = z) of a 9-byte output buffer
AxisOf(buf, a) == buf[2 * a - 1] * 4096 + buf[2 * a] * 16 + (buf[6 + a] \div 16)

\* n / 2 rounded to the nearest integer, halves away from zero
RoundHalf(n) == IF n >= 0 THEN (n + 1) \div 2 ELSE -((1 - n) \div 2)
\* n / 2 with the fraction dropped
TruncHalf(n) == IF n >= 0 THEN n \div 2 ELSE -((-n) \div 2)

\* C1: when calibrate() returns, continuous mode and the control-2 cache
\* (high-power bit included) are what they were at its entry, the last byte
\* written to control register 2 is that cache, the last byte written to
\* control register 1 is the byte read from it at the entry, and the writes
\* to control register 0 end with set (0x08), reset (0x10), then
\* cmm_freq_en (0x80) exactly when continuous mode was on at the entry.
C1_CalibrateRestores ==
    Returned("calibrate") =>
        LET c0  == Bytes(WritesTo("CTRL0"))
            c1  == Bytes(WritesTo("CTRL1"))
            c2  == Bytes(WritesTo("CTRL2"))
            was == CmmBit(pre.ctrl2)
        IN  /\ CmmBit(_ctrl2_cache) = was
            /\ _ctrl2_cache = pre.ctrl2
            /\ c2[Len(c2)] = _ctrl2_cache
            /\ ctrl2_hw = _ctrl2_cache
            /\ log[1].k = "r" /\ log[1].reg = "CTRL1"
            /\ c1[Len(c1)] = log[1].data[1]
            /\ IF was THEN LastN(c0, 3) = <<8, 16, 128>>
                      ELSE LastN(c0, 2) = <<8, 16>>

\* calibrate() has returned after being entered in continuous mode with the
\* high-power bit set
C1_Witness ==
    Returned("calibrate") /\ CmmBit(pre.ctrl2) /\ HpBit(pre.ctrl2)

\* C2: readTemperature() returns NaN exactly when continuous mode is on at
\* the call; then it performs no bus transaction (no trigger write, no
\* status read).  In one-shot mode it writes the trigger 0x02, polls, and
\* returns 0.8 * byte - 75 for the temperature byte it read.
C2_TemperatureNaN ==
    /\ pc = "temp_poll" => ~CmmBit(pre.ctrl2)
    /\ Returned("readTemperature") =>
          LET t == ReadsOf("OUT_TEMP")
          IN  /\ ret.nan <=> CmmBit(pre.ctrl2)
              /\ ret.nan => Len(log) = 0
              /\ ~ret.nan =>
                    /\ Bytes(WritesTo("CTRL0")) = <<2>>
                    /\ Len(ReadsOf("STATUS")) = 1
                    /\ Len(t) = 1
                    /\ ret.tenths = 8 * t[1].data[1] - 750

\* readTemperature() has returned NaN
C2_Witness == Returned("readTemperature") /\ ret.nan /\ CmmBit(_ctrl2_cache)

\* C3 as claimed: after calibrate() each bias is the mean of the high and
\* the low sample rounded to the nearest integer.
C3_BiasIsRoundedMean ==
    Returned("calibrate") =>
        LET r == ReadsOf("OUT_X_L")
            h == r[1].data
            l == r[2].data
        IN  /\ bx = RoundHalf(AxisOf(h, 1) + AxisOf(l, 1))
            /\ by = RoundHalf(AxisOf(h, 2) + AxisOf(l, 2))
            /\ bz = RoundHalf(AxisOf(h, 3) + AxisOf(l, 3))

\* C3 amended: after calibrate() each bias is the mean of the high sample
\* (first read) and the low sample (second read) with the fraction dropped.
C3_BiasIsTruncatedMean ==
    Returned("calibrate") =>
        LET r == ReadsOf("OUT_X_L")
            h == r[1].data
            l == r[2].data
        IN  /\ Len(r) = 2
            /\ bx = TruncHalf(AxisOf(h, 1) + AxisOf(l, 1))
            /\ by = TruncHalf(AxisOf(h, 2) + AxisOf(l, 2))
            /\ bz = TruncHalf(AxisOf(h, 3) + AxisOf(l, 3))

\* calibrate() has returned from two samples whose x values have an odd sum
C3_Witness ==
    /\ Returned("calibrate")
    /\ LET r == ReadsOf("OUT_X_L")
       IN  (AxisOf(r[1].data, 1) + AxisOf(r[2].data, 1)) % 2 = 1

\* C4 as claimed: getDataRate() returns the data rate cached by the last
\* setDataRate (r, or 1000 for r > 255; 0 after reset()), which is what
\* _odr_cache holds.
C4_GetDataRateReturnsRate ==
    Returned("getDataRate") => ret[1] = _odr_cache

\* C5: setDataRate(r) with r > 255 writes 255 to the rate register, sets
\* the high-power bit in the control-2 cache, writes the cache to control
\* register 2 and caches 1000, whatever r is (so 300 acts as 1000); with
\* r <= 255 it writes r, clears the high-power bit, writes the cache and
\* caches r.  Nothing else is written.
C5_SetDataRateClamps ==
    Returned("setDataRate") =>
        LET r    == arg[1]
            hi   == r > 255
            want == IF hi THEN (IF HpBit(pre.ctrl2) THEN pre.ctrl2 ELSE pre.ctrl2 + 128)
                          ELSE (IF HpBit(pre.ctrl2) THEN pre.ctrl2 - 128 ELSE pre.ctrl2)
        IN  /\ Len(log) = 2
            /\ log[1].k = "w" /\ log[1].reg = "ODR"
            /\ log[1].data = <<IF hi THEN 255 ELSE r>>
            /\ log[2].k = "w" /\ log[2].reg = "CTRL2"
            /\ log[2].data = <<want>>
            /\ _ctrl2_cache = want
            /\ ctrl2_hw = want
            /\ HpBit(_ctrl2_cache) = hi
            /\ _odr_cache = IF hi THEN 1000 ELSE r

\* setDataRate(300) has returned, called in continuous mode with the
\* high-power bit clear
C5_Witness ==
    /\ Returned("setDataRate") /\ arg[1] = 300
    /\ CmmBit(pre.ctrl2) /\ ~HpBit(pre.ctrl2)

\* C6: isContinuousMode() called right after setContinuousMode(m) returns
\* m; setContinuousMode(m) leaves the cached enable bit equal to m; and
\* isContinuousMode() performs no bus transaction and returns the cached bit.
C6_ModeRoundTrip ==
    [][/\ (pc = "idle" /\ op = "setContinuousMode" /\ op' = "isContinuousMode")
            => ret'[1] = arg[1]
       /\ op' = "setContinuousMode" => CmmBit(_ctrl2_cache') = arg'[1]
       /\ op' = "isContinuousMode"
            => Len(log') = 0 /\ ret'[1] = CmmBit(_ctrl2_cache')]_vars

\* isContinuousMode() has returned true without a bus transaction
C6_Witness ==
    Returned("isContinuousMode") /\ ret[1] /\ Len(log) = 0

\* C7: getEvent() decodes x, y, z from the 9 bytes of one read of the
\* output registers: each axis is high * 2^12 + mid * 2^4 + top nibble of
\* its low byte, x from bytes 0, 1, 6, y from bytes 2, 3, 7, z from bytes
\* 4, 5, 8, and lies in 0 .. 2^20 - 1.  The high sample of calibrate() is
\* decoded the same way.
C7_DecodeOneRead ==
    /\ Returned("getEvent") =>
          LET r   == ReadsOf("OUT_X_L")
              raw == <<x + bx, y + by, z + bz>>
          IN  /\ Len(r) = 1
              /\ Len(r[1].data) = 9
              /\ \A a \in 1..3 :
                    /\ raw[a] = AxisOf(r[1].data, a)
                    /\ raw[a] \in 0..1048575
    /\ pc = "cal_poll_reset" =>
          LET r == ReadsOf("OUT_X_L")
          IN  /\ Len(r) = 1
              /\ \A a \in 1..3 : loc.high[a] = AxisOf(r[1].data, a)

\* getEvent() has returned a sample whose low bytes have different top and
\* bottom nibbles and differ between the axes
C7_Witness ==
    /\ Returned("getEvent")
    /\ LET b == ReadsOf("OUT_X_L")[1].data
       IN  /\ \A j \in 7..9 : b[j] \div 16 # b[j] % 16
           /\ b[7] \div 16 # b[8] \div 16

\* what getEvent() leaves behind: the members and the event hold raw - bias,
\* the event in units of 0.00001 uT (0.00625 uT per count)
C8_EventValue ==
    Returned("getEvent") =>
        LET b == ReadsOf("OUT_X_L")[1].data
        IN  /\ x = AxisOf(b, 1) - bx
            /\ y = AxisOf(b, 2) - by
            /\ z = AxisOf(b, 3) - bz
            /\ ret.ok
            /\ ret.magnetic = <<625 * (AxisOf(b, 1) - bx),
                                625 * (AxisOf(b, 2) - by),
                                625 * (AxisOf(b, 3) - bz)>>

\* C8: getEvent() reports (raw - bias) * 0.00625 per axis and stores
\* raw - bias in x, y, z, with the bias stored at that time; no step of
\* getEvent, readTemperature, setContinuousMode or setDataRate changes the
\* stored bias.
C8_EventUsesBias ==
    [][/\ C8_EventValue'
       /\ op' \in {"getEvent", "readTemperature", "setContinuousMode", "setDataRate"}
            => <<bx, by, bz>>' = <<bx, by, bz>>]_vars

\* getEvent() has returned with a bias larger than the sample
C8_Witness ==
    Returned("getEvent") /\ bx # 0 /\ x < 0

\* C9 as claimed: after reset(), also when run by a successful begin(), the
\* stored bias is zero.
C9_ResetClearsBias ==
    (Returned("reset") \/ (Returned("begin") /\ ret[1]))
        => (bx = 0 /\ by = 0 /\ bz = 0)

\* C10: begin() returns false exactly when the transport did not open or
\* the product ID read is not the chip id; then it wrote no register and
\* left the caches, the register pointers and the bias as they were.  When
\* it returns true the ID was read and matched, the writes are those of
\* reset(), both caches are zero and continuous mode is off.
C10_BeginChecksFirst ==
    [][op' = "begin" =>
        LET opened == log'[1].data[1] = 1
            idok   == Len(log') >= 2 /\ log'[2].data[1] = MMC56X3_CHIP_ID
            w      == AllWrites'
        IN  /\ log'[1].k = "open"
            /\ ~opened => Len(log') = 1
            /\ opened => (Len(log') >= 2 /\ log'[2].k = "r"
                          /\ log'[2].reg = "PRODUCT_ID")
            /\ ~ret'[1] <=> (~opened \/ ~idok)
            /\ ~ret'[1] =>
                  /\ Len(w) = 0
                  /\ UNCHANGED <<_odr_cache, _ctrl2_cache, ctrl2_hw, regs, bx, by, bz>>
            /\ ret'[1] =>
                  /\ [i \in DOMAIN w |-> <<w[i].reg, w[i].data[1]>>]
                       = << <<"CTRL1", 128>>, <<"CTRL0", 8>>,
                            <<"CTRL0", 16>>, <<"CTRL2", 0>> >>
                  /\ _odr_cache' = 0 /\ _ctrl2_cache' = 0
                  /\ ~CmmBit(_ctrl2_cache')
                  /\ regs']_vars

\* begin() has returned false on a product-ID mismatch while the cache and
\* the bias were not zero
C10_Witness ==
    /\ Returned("begin") /\ ~ret[1] /\ Len(log) = 2
    /\ _ctrl2_cache # 0 /\ bx # 0

\* kind and register of every transaction of the call, in order
Shape(l) == [i \in DOMAIN l |-> <<l[i].k, l[i].reg>>]

\* the status byte read by transaction e has bit 6 set
Bit6(e) == (e.data[1] \div 64) % 2 = 1

\* C11 as claimed: every bus transaction of a begin(i2c_address) call goes
\* to i2c_address, and the device the following operations use is bound to
\* it, whatever earlier begin calls were given.
C11_BeginUsesGivenAddress ==
    op = "begin" =>
        /\ \A i \in DOMAIN log : log[i].addr = arg[1]
        /\ i2c_dev = arg[1]

\* C12: reset() writes, in this order, 0x80 to control register 1, 0x08 and
\* 0x10 to control register 0 and the cleared cache (0) to control
\* register 2, and nothing else; it ends with both caches zero, continuous
\* mode off and 0 as the last byte written to control register 2.
C12_ResetSequence ==
    Returned("reset") =>
        /\ Shape(log) = << <<"w", "CTRL1">>, <<"w", "CTRL0">>,
                           <<"w", "CTRL0">>, <<"w", "CTRL2">> >>
        /\ Bytes(log) = <<128, 8, 16, 0>>
        /\ _odr_cache = 0
        /\ _ctrl2_cache = 0
        /\ ~CmmBit(_ctrl2_cache)
        /\ ctrl2_hw = 0

\* reset() has returned after being called in continuous mode at the
\* maximum rate with the high-power bit set
C12_Witness ==
    /\ Returned("reset")
    /\ CmmBit(pre.ctrl2) /\ HpBit(pre.ctrl2) /\ pre.odr = 1000

\* C13: getEvent() called in one-shot mode writes the trigger 0x01 to
\* control register 0, then reads the status register with bit 6 set, then
\* reads the 9 output bytes, and does nothing before the bit is set; called
\* in continuous mode its only transaction is the read of the output
\* bytes.  It returns true.
C13_GetEventOrder ==
    /\ pc = "event_poll" =>
          /\ ~CmmBit(pre.ctrl2)
          /\ Shape(log) = << <<"w", "CTRL0">> >>
          /\ log[1].data = <<1>>
    /\ Returned("getEvent") =>
          /\ ret.ok
          /\ IF CmmBit(pre.ctrl2)
             THEN Shape(log) = << <<"r", "OUT_X_L">> >>
             ELSE /\ Shape(log) = << <<"w", "CTRL0">>, <<"r", "STATUS">>,
                                     <<"r", "OUT_X_L">> >>
                  /\ log[1].data = <<1>>
                  /\ Bit6(log[2])

\* getEvent() has returned after a trigger and a poll in one-shot mode
C13_Witness ==
    Returned("getEvent") /\ ~CmmBit(pre.ctrl2) /\ Len(log) = 3

\* the transactions of calibrate() up to the read of the low sample
CalShape ==
    << <<"r", "CTRL1">>, <<"w", "CTRL2">>, <<"w", "CTRL0">>, <<"w", "CTRL1">>,
       <<"w", "CTRL0">>, <<"r", "STATUS">>, <<"r", "OUT_X_L">>,
       <<"w", "CTRL0">>, <<"w", "CTRL0">>, <<"r", "STATUS">>,
       <<"r", "OUT_X_L">> >>

\* the first n transactions of the call are the first n of calibrate()'s
\* protocol: one-shot mode written to control register 2, set 0x08,
\* 0x20 to control register 1, trigger 0x01, status with bit 6 set, read;
\* reset 0x10, trigger 0x01, status with bit 6 set, read
CalPrefix(n) ==
    /\ Len(log) >= n
    /\ SubSeq(Shape(log), 1, n) = SubSeq(CalShape, 1, n)
    /\ \A i \in 1..n :
          /\ i = 2 => ~CmmBit(log[i].data[1])
          /\ i = 3 => log[i].data = <<8>>
          /\ i = 4 => log[i].data = <<32>>
          /\ i \in {5, 9} => log[i].data = <<1>>
          /\ i \in {6, 10} => Bit6(log[i])
          /\ i = 8 => log[i].data = <<16>>

\* C14: calibrate() first writes one-shot mode to control register 2, then
\* set, max-read-time, trigger, and reads the high sample only after it
\* read status bit 6 set; then reset, trigger, and reads the low sample only
\* after it read status bit 6 set again.  While it waits for either
\* measurement the enable bit last written to control register 2 is 0.
C14_CalibrateProtocol ==
    /\ pc = "cal_poll_set" =>
          CalPrefix(5) /\ Len(log) = 5 /\ ~CmmBit(ctrl2_hw)
    /\ pc = "cal_poll_reset" =>
          CalPrefix(9) /\ Len(log) = 9 /\ ~CmmBit(ctrl2_hw)
    /\ Returned("calibrate") => CalPrefix(11)

\* calibrate() has returned after being entered in continuous mode
C14_Witness ==
    Returned("calibrate") /\ CmmBit(pre.ctrl2) /\ Len(log) > 11

\* C16: once begin() has succeeded, whenever no call is in progress the
\* byte the driver last wrote to control register 2 equals _ctrl2_cache, so
\* the cached continuous-mode bit is the one the device holds.
C16_CacheMatchesHardware ==
    (pc = "idle" /\ regs) =>
        /\ ctrl2_hw = _ctrl2_cache
        /\ CmmBit(ctrl2_hw) = CmmBit(_ctrl2_cache)

\* setDataRate(1000) has returned in continuous mode: the cache and the
\* device both hold 0x90
C16_Witness ==
    /\ Returned("setDataRate")
    /\ regs
    /\ _ctrl2_cache = 144
    /\ ctrl2_hw = 144

\* C17: setDataRate(r) leaves the continuous-enable bit of the cache as it
\* was; setContinuousMode(m) leaves the high-power bit and the data-rate
\* cache as they were, writes only the cache to control register 2 when m
\* is false, and writes 0x80 to control register 0 and then the cache to
\* control register 2 when m is true.
C17_ModeRateIndependent ==
    /\ Returned("setDataRate") =>
          CmmBit(_ctrl2_cache) = CmmBit(pre.ctrl2)
    /\ Returned("setContinuousMode") =>
          /\ HpBit(_ctrl2_cache) = HpBit(pre.ctrl2)
          /\ _odr_cache = pre.odr
          /\ IF arg[1]
             THEN /\ Shape(log) = << <<"w", "CTRL0">>, <<"w", "CTRL2">> >>
                  /\ Bytes(log) = <<128, _ctrl2_cache>>
             ELSE /\ Shape(log) = << <<"w", "CTRL2">> >>
                  /\ Bytes(log) = <<_ctrl2_cache>>

\* setContinuousMode(true) has returned with the high-power bit set and the
\* rate cache at 1000
C17_Witness ==
    /\ Returned("setContinuousMode")
    /\ arg[1]
    /\ HpBit(pre.ctrl2)
    /\ pre.odr = 1000

\* the status bit the poll loop at position p reads: bit 7 for the
\* temperature, bit 6 for the magnetic measurements
DoneBitOf(p) == IF p = "temp_poll" THEN 7 ELSE 6

\* C15: a call that is in one of its poll loops leaves the loop only in a
\* step taken while the device shows the polled status bit set (bit 6 for
\* getEvent() and calibrate(), bit 7 for readTemperature()), and returns
\* nothing before; when the device finishes every triggered measurement,
\* every call that is polling eventually returns.
C15_PollsUntilDone ==
    /\ [][(pc \in PollPcs /\ meas[DoneBitOf(pc)] # "done")
             => (pc' = pc /\ ret' = ret /\ log' = log)]_vars
    /\ (pc \in PollPcs) ~> (pc = "idle")

\* a call is in its poll loop and the device has not finished the
\* measurement: the first poll of calibrate(), with the bit still clear
C15_Witness ==
    /\ pc \in PollPcs
    /\ op = "calibrate"
    /\ meas[DoneBitOf(pc)] = "busy"
    /\ Len(log) = 5

============================================================================
